---- MODULE Spec2Model ----
(***************************************************************************)
(* ServerListViewSet.list (djchat/server/views.py): the query-parameter    *)
(* driven listing pipeline over the Server table.                          *)
(*                                                                         *)
(* Strings are sequences of one-character strings, so that int() and the   *)
(* truthiness tests of the code are computed and not assumed.  A Django    *)
(* QuerySet is a lazy value: a record of the clauses accumulated so far,   *)
(* evaluated against the table only by exists() and by iteration.  The     *)
(* class attribute ServerListViewSet.queryset is one QuerySet object       *)
(* shared by every view instance; its _result_cache is the variable        *)
(* queryset_cache.                                                         *)
(*                                                                         *)
(* list() runs on one thread per request.  What it shares with writers     *)
(* and with other requests is the table and the result cache of the class  *)
(* attribute, and it goes to them at separate points: exists() (line 94),  *)
(* the slice (line 102), and the iteration of the serializer (line 107),   *)
(* itself a test of the cache, a SELECT, a store and a read.  Each action  *)
(* of a request holds exactly one such access, with the thread-local       *)
(* code around it; writers and other threads run between the actions.      *)
(*                                                                         *)
(* A character is a one-character string; a character TLA+ cannot write    *)
(* is named by its code point ("U+00A0").  The alphabet is ASCII and the   *)
(* Unicode white space; decimal digits outside ASCII, which int() also     *)
(* takes, are not in it.  int() skips less than str.isspace() accepts:     *)
(* the ASCII separators U+001C..U+001F stay in the literal.                *)
(***************************************************************************)
EXTENDS Integers, Sequences, FiniteSets, TLC

\* ---------------------------------------------------------------- bounds
\* the writes other writers make to the table
MaxWrites == 3

\* --------------------------------------------------------------- strings
S_empty == <<>>
S_true == <<"t", "r", "u", "e">>
S_web == <<"w", "e", "b">>
S_game == <<"g", "a", "m", "e">>
S_iot == <<"i", "o", "t">>
S_abc == <<"a", "b", "c">>
S_0 == <<"0">>
S_1 == <<"1">>
S_ff1 == <<"\f", "1">>
S_fs1 == <<"U+001C", "1">>
S_9 == <<"9">>
S_neg1 == <<"-", "1">>
S_x == <<"x">>

DigitVal ==
  [c \in {"0", "1", "2", "3", "4", "5", "6", "7", "8", "9"} |->
     CASE c = "0" -> 0 [] c = "1" -> 1 [] c = "2" -> 2 [] c = "3" -> 3
       [] c = "4" -> 4 [] c = "5" -> 5 [] c = "6" -> 6 [] c = "7" -> 7
       [] c = "8" -> 8 [] c = "9" -> 9]

IsDigit(c) == c \in DOMAIN DigitVal

\* the characters int() skips at both ends of a literal: the white space of
\* the C parser (\t \n \v \f \r and space) and the Unicode spaces outside
\* ASCII, which the conversion turns into a space first.  U+001C..U+001F are
\* str.isspace() but ASCII, reach the parser unchanged and are not skipped.
IsSpace(c) ==
  c \in {" ", "\t", "\n", "\r", "\f", "U+000B", "U+0085", "U+00A0", "U+1680",
         "U+2000", "U+2001", "U+2002", "U+2003", "U+2004", "U+2005", "U+2006",
         "U+2007", "U+2008", "U+2009", "U+200A", "U+2028", "U+2029", "U+202F",
         "U+205F", "U+3000"}

RECURSIVE LStrip(_)
LStrip(s) ==
  IF s # <<>> /\ IsSpace(Head(s)) THEN LStrip(Tail(s)) ELSE s

RECURSIVE RStrip(_)
RStrip(s) ==
  IF s # <<>> /\ IsSpace(s[Len(s)]) THEN RStrip(SubSeq(s, 1, Len(s) - 1)) ELSE s

Strip(s) == RStrip(LStrip(s))

\* the digit part of an integer literal: digits, single underscores between
WellFormedDigits(d) ==
  /\ d # <<>>
  /\ \A i \in 1..Len(d) : IsDigit(d[i]) \/ d[i] = "_"
  /\ IsDigit(d[1]) /\ IsDigit(d[Len(d)])
  /\ \A i \in 1..(Len(d) - 1) : ~(d[i] = "_" /\ d[i + 1] = "_")

RECURSIVE DigitsValue(_, _)
DigitsValue(d, acc) ==
  IF d = <<>> THEN acc
  ELSE IF Head(d) = "_" THEN DigitsValue(Tail(d), acc)
  ELSE DigitsValue(Tail(d), 10 * acc + DigitVal[Head(d)])

\* Python int(str): <<n>> when the literal is an integer, <<>> for ValueError
int(s) ==
  LET t == Strip(s)
      signed == t # <<>> /\ Head(t) \in {"+", "-"}
      d == IF signed THEN Tail(t) ELSE t
  IN IF ~WellFormedDigits(d) THEN <<>>
     ELSE IF signed /\ Head(t) = "-" THEN << 0 - DigitsValue(d, 0) >>
     ELSE << DigitsValue(d, 0) >>

\* ------------------------------------------------------------ parameters
CategoryValues == {S_empty, S_web, S_iot}
BoolValues == {S_true}
AnnotateValues == {S_true}
ServerIdValues == {S_empty, S_1, S_9, S_abc}
QtyValues == {S_0, S_ff1, S_fs1, S_x, S_neg1}
UserIds == {1}

\* a key that is absent, or present with one of the values
Field(k, Vals) == {<<>>} \cup {(k :> v) : v \in Vals}

QueryParams ==
  {c @@ q @@ u @@ s @@ w :
     c \in Field("category", CategoryValues),
     q \in Field("qty", QtyValues),
     u \in Field("by_user", BoolValues),
     s \in Field("by_serverid", ServerIdValues),
     w \in Field("with_num_members", AnnotateValues)}

\* request.user: AnonymousUser or a User row
AnonymousUser == [is_authenticated |-> FALSE, id |-> <<>>]
Users == {AnonymousUser} \cup {[is_authenticated |-> TRUE, id |-> <<u>>] : u \in UserIds}

\* request.query_params.get(key): truthiness and comparison with a literal
Has(p, key) == key \in DOMAIN p
Truthy(p, key) == Has(p, key) /\ p[key] # <<>>
GetEquals(p, key, lit) == Has(p, key) /\ p[key] = lit

\* ------------------------------------------------------------- QuerySet
\* Server.objects.all(): no clause yet; shared marks the class-level object
ClassQuerySet ==
  [shared |-> TRUE, category |-> <<>>, member |-> <<>>, id |-> <<>>,
   annotate |-> FALSE, high_mark |-> <<>>, list |-> <<>>]

\* filter()/annotate() return a clone (_chain): a new object, no result cache
filter_category(qs, name) == [qs EXCEPT !.shared = FALSE, !.category = <<name>>]

filter_member(qs, uid) == [qs EXCEPT !.shared = FALSE, !.member = <<uid>>]

filter_id(qs, n) == [qs EXCEPT !.shared = FALSE, !.id = <<n>>]

annotate_num_members(qs) == [qs EXCEPT !.shared = FALSE, !.annotate = TRUE]

Min(a, b) == IF a <= b THEN a ELSE b

Take(rows, n) == SubSeq(rows, 1, Min(n, Len(rows)))

\* Count("member"): the joined relation rows of one server, one per row
Count(rows) == Len(rows)

\* the result rows one Server row contributes to the query
RowsOf(qs, s) ==
  LET joined == IF qs.member = <<>> THEN s.member
                ELSE SelectSeq(s.member, LAMBDA u : u = qs.member[1])
      keep == /\ qs.category = <<>> \/ s.category = qs.category[1]
              /\ qs.id = <<>> \/ s.id = qs.id[1]
              /\ qs.member = <<>> \/ joined # <<>>
      obj == IF qs.annotate
             THEN [id |-> s.id, category |-> s.category, num_members |-> Count(joined)]
             ELSE [id |-> s.id, category |-> s.category]
      copies == IF qs.member # <<>> /\ ~qs.annotate THEN Len(joined) ELSE 1
  IN IF keep THEN [i \in 1..copies |-> obj] ELSE <<>>

RECURSIVE Select(_, _)
Select(qs, table) ==
  IF table = <<>> THEN <<>>
  ELSE RowsOf(qs, Head(table)) \o Select(qs, Tail(table))

\* run the query: WHERE / JOIN / GROUP BY, then LIMIT
Execute(qs, table) ==
  LET rows == Select(qs, table)
  IN IF qs.high_mark = <<>> THEN rows ELSE Take(rows, qs.high_mark[1])

\* QuerySet.exists() on a clone: asks the database
exists(qs, table) == Select(qs, table) # <<>>

\* QuerySet.__getitem__(slice(None, n)) for n >= 0
slice(qs, n, cache) ==
  IF qs.shared /\ cache.filled
  THEN [qs EXCEPT !.shared = FALSE, !.list = <<Take(cache.rows, n)>>]
  ELSE [qs EXCEPT !.shared = FALSE, !.high_mark = <<n>>]

\* the queryset as it was before the slice
Unsliced(qs) == [qs EXCEPT !.high_mark = <<>>]

\* ------------------------------------------------------------ exceptions
AuthenticationFailed == [exc |-> "AuthenticationFailed", detail |-> <<>>]

ValidationError(detail) == [exc |-> "ValidationError", detail |-> detail]

ValueError(detail) == [exc |-> "ValueError", detail |-> detail]

\* ---------------------------------------------------------------- stages
\* a frame is the view instance part way through list(): self.queryset,
\* the exception in flight (<<>> when none), and the stages entered so far
Frame0 == [queryset |-> ClassQuerySet, exc |-> <<>>, ran |-> <<>>]

Enter(f, stage) == [f EXCEPT !.ran = Append(@, stage)]

Raise(f, e) == [f EXCEPT !.exc = <<e>>]

\* the filter is built and its result dropped
category_stage_unassigned(f, p) ==
  IF f.exc # <<>> THEN f ELSE Enter(f, "category")

category_stage(f, p) ==
  IF f.exc # <<>> THEN f
  ELSE LET g == Enter(f, "category")
       IN IF Truthy(p, "category")
          THEN [g EXCEPT !.queryset = filter_category(@, p["category"])]
          ELSE g

\* the raise sits inside the is_authenticated block
by_user_stage_raise_indented(f, p, u) ==
  IF f.exc # <<>> THEN f
  ELSE LET g == Enter(f, "by_user")
       IN IF GetEquals(p, "by_user", S_true) /\ u.is_authenticated
          THEN Raise([g EXCEPT !.queryset = filter_member(@, u.id[1])],
                     AuthenticationFailed)
          ELSE g

by_user_stage(f, p, u) ==
  IF f.exc # <<>> THEN f
  ELSE LET g == Enter(f, "by_user")
       IN IF GetEquals(p, "by_user", S_true)
          THEN LET h == IF u.is_authenticated
                        THEN [g EXCEPT !.queryset = filter_member(@, u.id[1])]
                        ELSE g
               IN Raise(h, AuthenticationFailed)
          ELSE g

with_num_members_stage(f, p) ==
  IF f.exc # <<>> THEN f
  ELSE LET g == Enter(f, "with_num_members")
       IN IF GetEquals(p, "with_num_members", S_true)
          THEN [g EXCEPT !.queryset = annotate_num_members(@)]
          ELSE g

\* the filter is tried before the authentication test
by_serverid_stage_parse_first(f, p, u, table) ==
  IF f.exc # <<>> THEN f
  ELSE LET g == Enter(f, "by_serverid")
       IN IF ~Truthy(p, "by_serverid") THEN g
          ELSE LET n == int(p["by_serverid"])
               IN IF n = <<>>
                  THEN Raise(g, ValidationError(<<"Server value error">>))
                  ELSE IF ~u.is_authenticated THEN Raise(g, AuthenticationFailed)
                  ELSE LET h == [g EXCEPT !.queryset = filter_id(@, n[1])]
                       IN IF ~exists(h.queryset, table)
                          THEN Raise(h, ValidationError(
                                 <<"Server with id ", p["by_serverid"], " not found">>))
                          ELSE h

\* no except clause: the ValueError of the filter propagates
by_serverid_stage_uncaught(f, p, u, table) ==
  IF f.exc # <<>> THEN f
  ELSE LET g == Enter(f, "by_serverid")
       IN IF ~Truthy(p, "by_serverid") THEN g
          ELSE IF ~u.is_authenticated THEN Raise(g, AuthenticationFailed)
          ELSE LET n == int(p["by_serverid"])
               IN IF n = <<>>
                  THEN Raise(g, ValueError(<<"invalid literal for int()">>))
                  ELSE LET h == [g EXCEPT !.queryset = filter_id(@, n[1])]
                       IN IF ~exists(h.queryset, table)
                          THEN Raise(h, ValidationError(
                                 <<"Server with id ", p["by_serverid"], " not found">>))
                          ELSE h

\* except Exception: the not-found error is caught and converted too
by_serverid_stage_except_all(f, p, u, table) ==
  IF f.exc # <<>> THEN f
  ELSE LET g == Enter(f, "by_serverid")
       IN IF ~Truthy(p, "by_serverid") THEN g
          ELSE IF ~u.is_authenticated THEN Raise(g, AuthenticationFailed)
          ELSE LET n == int(p["by_serverid"])
               IN IF n = <<>>
                  THEN Raise(g, ValidationError(<<"Server value error">>))
                  ELSE LET h == [g EXCEPT !.queryset = filter_id(@, n[1])]
                       IN IF ~exists(h.queryset, table)
                          THEN Raise(h, ValidationError(<<"Server value error">>))
                          ELSE h

by_serverid_stage(f, p, u, table) ==
  IF f.exc # <<>> THEN f
  ELSE LET g == Enter(f, "by_serverid")
       IN IF ~Truthy(p, "by_serverid") THEN g
          ELSE IF ~u.is_authenticated THEN Raise(g, AuthenticationFailed)
          ELSE LET n == int(p["by_serverid"])
               IN IF n = <<>>
                  THEN Raise(g, ValidationError(<<"Server value error">>))
                  ELSE LET h == [g EXCEPT !.queryset = filter_id(@, n[1])]
                       IN IF ~exists(h.queryset, table)
                          THEN Raise(h, ValidationError(
                                 <<"Server with id ", p["by_serverid"], " not found">>))
                          ELSE h

\* the slice keeps one row too many
qty_stage_off_by_one(f, p, cache) ==
  IF f.exc # <<>> THEN f
  ELSE LET g == Enter(f, "qty")
       IN IF ~Truthy(p, "qty") THEN g
          ELSE LET n == int(p["qty"])
               IN IF n = <<>>
                  THEN Raise(g, ValueError(<<"invalid literal for int()">>))
                  ELSE IF n[1] < 0
                  THEN Raise(g, ValueError(<<"Negative indexing is not supported.">>))
                  ELSE [g EXCEPT !.queryset = slice(@, n[1] + 1, cache)]

qty_stage(f, p, cache) ==
  IF f.exc # <<>> THEN f
  ELSE LET g == Enter(f, "qty")
       IN IF ~Truthy(p, "qty") THEN g
          ELSE LET n == int(p["qty"])
               IN IF n = <<>>
                  THEN Raise(g, ValueError(<<"invalid literal for int()">>))
                  ELSE IF n[1] < 0
                  THEN Raise(g, ValueError(<<"Negative indexing is not supported.">>))
                  ELSE [g EXCEPT !.queryset = slice(@, n[1], cache)]

\* qty is converted where the parameters are read, ahead of every stage
BeforeQty_eager_qty(p, u, table) ==
  IF Truthy(p, "qty") /\ int(p["qty"]) = <<>>
  THEN Raise(Enter(Frame0, "qty"), ValueError(<<"invalid literal for int()">>))
  ELSE by_serverid_stage(
         with_num_members_stage(by_user_stage(category_stage(Frame0, p), p, u), p),
         p, u, table)

\* the frame on entry to the quantity stage
BeforeQty(p, u, table) ==
  by_serverid_stage(
    with_num_members_stage(by_user_stage(category_stage(Frame0, p), p, u), p),
    p, u, table)

\* the frame on entry to the serializer
Pipeline(p, u, table, cache) == qty_stage(BeforeQty(p, u, table), p, cache)

\* the requests that leave the class-level queryset as it is, or only slice it
CacheParams == {<<>>, ("qty" :> S_ff1), ("category" :> S_web)}

\* ----------------------------------------------------------------- state
Threads == {"A", "B"}

VARIABLES
  db,              \* the Server table, in primary-key order, with relation rows
  last_id,         \* the last primary key the table issued
  writes,          \* the writes made so far
  queryset_cache,  \* ServerListViewSet.queryset._result_cache
  pc,              \* per thread: "idle", "query", "fetch", "store", "read", "responded"
  params,          \* per thread: request.query_params
  user,            \* per thread: request.user
  frame,           \* per thread: the view instance while list() is running
  rows,            \* per thread: the rows its SELECT for the class-level queryset gave
  response,        \* per thread: what list() returned or raised
  stages,          \* per thread: the stages the request entered, in order
  working,         \* per thread: the rows the unsliced self.queryset stood for
  id_known,        \* per thread: was by_serverid the id of a row when line 94 was due
  raced            \* per thread: did a writer change the table while list() ran

vars == <<db, last_id, writes, queryset_cache, pc, params, user, frame, rows, response,
          stages, working, id_known, raced>>

local == <<pc, params, user, frame, rows, response, stages, working, id_known>>

NoResponse == [returned |-> FALSE, exc |-> <<>>, data |-> <<>>]

Unfetched == [filled |-> FALSE, rows |-> <<>>]

Init ==
  /\ db = <<>>
  /\ last_id = 0
  /\ writes = 0
  /\ queryset_cache = Unfetched
  /\ pc = [t \in Threads |-> "idle"]
  /\ params = [t \in Threads |-> <<>>]
  /\ user = [t \in Threads |-> AnonymousUser]
  /\ frame = [t \in Threads |-> Frame0]
  /\ rows = [t \in Threads |-> <<>>]
  /\ response = [t \in Threads |-> NoResponse]
  /\ stages = [t \in Threads |-> <<>>]
  /\ working = [t \in Threads |-> <<>>]
  /\ id_known = [t \in Threads |-> <<>>]
  /\ raced = [t \in Threads |-> FALSE]

\* a response is looked at before anything else moves: Return is always
\* enabled and touches only its own thread, so no behaviour is lost
Quiet == \A t \in Threads : pc[t] # "responded"

\* list() raises e
Fail(t, f) ==
  /\ pc' = [pc EXCEPT ![t] = "responded"]
  /\ response' = [response EXCEPT ![t] = [returned |-> FALSE, exc |-> f.exc, data |-> <<>>]]
  /\ stages' = [stages EXCEPT ![t] = f.ran]
  /\ working' = [working EXCEPT ![t] = <<>>]
  /\ frame' = [frame EXCEPT ![t] = Frame0]
  /\ rows' = [rows EXCEPT ![t] = <<>>]

\* list() returns Response(serializer.data) (lines 104-107)
Succeed(t, f, data, unsliced) ==
  /\ pc' = [pc EXCEPT ![t] = "responded"]
  /\ response' = [response EXCEPT ![t] = [returned |-> TRUE, exc |-> <<>>, data |-> data]]
  /\ stages' = [stages EXCEPT ![t] = Append(f.ran, "serialize")]
  /\ working' = [working EXCEPT ![t] = <<unsliced>>]
  /\ frame' = [frame EXCEPT ![t] = Frame0]
  /\ rows' = [rows EXCEPT ![t] = <<>>]

\* list() is suspended before its next access to the table or the cache
Suspend(t, f, at) ==
  /\ pc' = [pc EXCEPT ![t] = at]
  /\ frame' = [frame EXCEPT ![t] = f]
  /\ UNCHANGED <<rows, response, stages, working>>

\* GET /api/server/?...: list() on a new view instance, from line 71 up to
\* and including its first access to the table or to the class-level cache
List(t, p, u) ==
  /\ Quiet
  /\ pc[t] = "idle"
  /\ params' = [params EXCEPT ![t] = p]
  /\ user' = [user EXCEPT ![t] = u]
  /\ id_known' = [id_known EXCEPT ![t] =
                    IF Truthy(p, "by_serverid") /\ int(p["by_serverid"]) # <<>>
                    THEN << \E i \in 1..Len(db) : db[i].id = int(p["by_serverid"])[1] >>
                    ELSE <<>>]
  /\ LET f4 == BeforeQty(p, u, db)
         f5 == qty_stage(f4, p, queryset_cache)
     IN IF f5.exc # <<>> THEN Fail(t, f5)
        \* exists() of line 94 was the access: the SELECT of line 107 is due
        ELSE IF f4.queryset.id # <<>> THEN Suspend(t, f5, "query")
        \* the slice of line 102 read the filled cache: a list, nothing is due
        ELSE IF f5.queryset.list # <<>>
        THEN Succeed(t, f5, f5.queryset.list[1], queryset_cache.rows)
        \* the slice of line 102 found the cache empty: the SELECT is due
        ELSE IF f4.queryset.shared /\ ~f5.queryset.shared THEN Suspend(t, f5, "query")
        \* the class-level queryset itself reaches line 107: test of its cache
        ELSE IF f5.queryset.shared
        THEN IF queryset_cache.filled
             THEN Succeed(t, f5, queryset_cache.rows, queryset_cache.rows)
             ELSE Suspend(t, f5, "fetch")
        \* a clone reaches line 107: its SELECT
        ELSE Succeed(t, f5, Execute(f5.queryset, db), Execute(Unsliced(f5.queryset), db))
  /\ UNCHANGED <<db, last_id, writes, queryset_cache, raced>>

\* line 107, a clone: the SELECT of the serializer
Query(t) ==
  /\ Quiet
  /\ pc[t] = "query"
  /\ Succeed(t, frame[t], Execute(frame[t].queryset, db),
             Execute(Unsliced(frame[t].queryset), db))
  /\ UNCHANGED <<db, last_id, writes, queryset_cache, params, user, id_known, raced>>

\* line 107, the class-level queryset, _fetch_all: the SELECT
FetchAll(t) ==
  /\ Quiet
  /\ pc[t] = "fetch"
  /\ pc' = [pc EXCEPT ![t] = "store"]
  /\ rows' = [rows EXCEPT ![t] = Execute(frame[t].queryset, db)]
  /\ UNCHANGED <<db, last_id, writes, queryset_cache, params, user, frame, response,
                 stages, working, id_known, raced>>

\* line 107, _fetch_all: self._result_cache = the rows
StoreCache(t) ==
  /\ Quiet
  /\ pc[t] = "store"
  /\ pc' = [pc EXCEPT ![t] = "read"]
  /\ queryset_cache' = [filled |-> TRUE, rows |-> rows[t]]
  /\ rows' = [rows EXCEPT ![t] = <<>>]
  /\ UNCHANGED <<db, last_id, writes, params, user, frame, response, stages, working,
                 id_known, raced>>

\* line 107, __iter__: iter(self._result_cache)
ReadCache(t) ==
  /\ Quiet
  /\ pc[t] = "read"
  /\ Succeed(t, frame[t], queryset_cache.rows, queryset_cache.rows)
  /\ UNCHANGED <<db, last_id, writes, queryset_cache, params, user, id_known, raced>>

\* the response is sent and the view instance dropped
Return(t) ==
  /\ pc[t] = "responded"
  /\ pc' = [pc EXCEPT ![t] = "idle"]
  /\ params' = [params EXCEPT ![t] = <<>>]
  /\ user' = [user EXCEPT ![t] = AnonymousUser]
  /\ response' = [response EXCEPT ![t] = NoResponse]
  /\ stages' = [stages EXCEPT ![t] = <<>>]
  /\ working' = [working EXCEPT ![t] = <<>>]
  /\ id_known' = [id_known EXCEPT ![t] = <<>>]
  /\ raced' = [raced EXCEPT ![t] = FALSE]
  /\ UNCHANGED <<db, last_id, writes, queryset_cache, frame, rows>>

\* the number of rows of the member relation
RECURSIVE RelationRows(_)
RelationRows(table) ==
  IF table = <<>> THEN 0 ELSE Len(Head(table).member) + RelationRows(Tail(table))

\* a write: counted, and seen by every request that is running
Write ==
  /\ Quiet
  /\ writes < MaxWrites
  /\ writes' = writes + 1
  /\ raced' = [t \in Threads |-> raced[t] \/ pc[t] # "idle"]

\* another writer inserts a Server row
CreateServer(c) ==
  /\ Write
  /\ last_id' = last_id + 1
  /\ db' = Append(db, [id |-> last_id + 1, category |-> c, member |-> <<>>])
  /\ UNCHANGED <<queryset_cache, local>>

\* another writer inserts a row of the member relation
AddMember(i, uid) ==
  /\ Write
  /\ i \in 1..Len(db)
  /\ db' = [db EXCEPT ![i].member = Append(@, uid)]
  /\ UNCHANGED <<last_id, queryset_cache, local>>

\* another writer deletes a Server row, and its relation rows with it
DeleteServer(i) ==
  /\ Write
  /\ i \in 1..Len(db)
  /\ db' = SubSeq(db, 1, i - 1) \o SubSeq(db, i + 1, Len(db))
  /\ UNCHANGED <<last_id, queryset_cache, local>>

Writer ==
  \/ \E c \in {S_web, S_game} : CreateServer(c)
  \/ \E i \in 1..Len(db), uid \in UserIds : AddMember(i, uid)
  \/ \E i \in 1..Len(db) : DeleteServer(i)

\* one request at a time, every combination of the parameters
Next ==
  \/ \E p \in QueryParams, u \in Users : List("A", p, u)
  \/ Query("A")
  \/ FetchAll("A")
  \/ StoreCache("A")
  \/ ReadCache("A")
  \/ Return("A")
  \/ Writer

Spec == Init /\ [][Next]_vars

\* overlapping requests, the parameters that meet the class-level cache
NextThreads ==
  \/ \E t \in Threads, p \in CacheParams, u \in Users : List(t, p, u)
  \/ \E t \in Threads : Query(t)
  \/ \E t \in Threads : FetchAll(t)
  \/ \E t \in Threads : StoreCache(t)
  \/ \E t \in Threads : ReadCache(t)
  \/ \E t \in Threads : Return(t)
  \/ Writer

SpecThreads == Init /\ [][NextThreads]_vars

\* ---------------------------------------------------------------- claims
Responded(t) == pc[t] = "responded"

ByUser(t) == GetEquals(params[t], "by_user", S_true)

WithNumMembers(t) == GetEquals(params[t], "with_num_members", S_true)

Authenticated(t) == user[t].is_authenticated

Failed(t, e) ==
  ~response[t].returned /\ response[t].exc = <<e>> /\ response[t].data = <<>>

Range(f) == {f[i] : i \in DOMAIN f}

LastStage(t) == stages[t][Len(stages[t])]

\* the by_serverid parameter is a non-empty string that int() rejects
ServerIdMalformed(t) ==
  Truthy(params[t], "by_serverid") /\ int(params[t]["by_serverid"]) = <<>>

\* the by_serverid parameter is an integer literal that was the id of no row
\* when the request looked (line 94), or would have looked
ServerIdUnknown(t) ==
  /\ Truthy(params[t], "by_serverid")
  /\ int(params[t]["by_serverid"]) # <<>>
  /\ id_known[t] = <<FALSE>>

\* the qty parameter is absent, empty, or a non-negative integer literal
QtyHarmless(t) ==
  \/ ~Truthy(params[t], "qty")
  \/ int(params[t]["qty"]) # <<>> /\ int(params[t]["qty"])[1] >= 0

\* the rows of the table that have uid among their members, unannotated
ServersOf(uid) ==
  LET Plain(s) == [id |-> s.id, category |-> s.category]
      RECURSIVE Pick(_)
      Pick(tb) == IF tb = <<>> THEN <<>>
                  ELSE IF uid \in Range(Head(tb).member)
                  THEN <<Plain(Head(tb))>> \o Pick(Tail(tb))
                  ELSE Pick(Tail(tb))
  IN Pick(db)

\* what the request would return from the table alone, nothing cached
Outcome(p, u, table) ==
  LET f == Pipeline(p, u, table, Unfetched)
  IN IF f.exc # <<>>
     THEN [returned |-> FALSE, exc |-> f.exc, data |-> <<>>]
     ELSE [returned |-> TRUE, exc |-> <<>>, data |-> Execute(f.queryset, table)]

\* C1: with by_user exactly "true" and an authenticated caller the by-user
\* stage does not fail: the pipeline goes on to the later stages, and with
\* no other parameter the outcome is exactly the caller's servers.
C1_ByUserNarrowsForAuthenticated ==
  \A t \in Threads :
    (Responded(t) /\ ByUser(t) /\ Authenticated(t)) =>
      /\ Len(stages[t]) > 2
      /\ (DOMAIN params[t] = {"by_user"} =>
            response[t].returned /\ response[t].data = ServersOf(user[t].id[1]))

\* C2: with by_user exactly "true" and an unauthenticated caller the request
\* fails with AuthenticationFailed and returns nothing, whatever category,
\* with_num_members, by_serverid and qty are.
C2_ByUserUnauthenticatedFails ==
  \A t \in Threads :
    (Responded(t) /\ ByUser(t) /\ ~Authenticated(t)) => Failed(t, AuthenticationFailed)

C2_Witness ==
  \E t \in Threads :
    /\ Responded(t) /\ ByUser(t) /\ ~Authenticated(t)
    /\ ServerIdMalformed(t)
    /\ Truthy(params[t], "qty") /\ int(params[t]["qty"]) = <<>>
    /\ Truthy(params[t], "category")
    /\ Failed(t, AuthenticationFailed)

\* C3 as stated: whenever the by_serverid parameter is set, to any string,
\* and the caller is unauthenticated, the request fails with
\* AuthenticationFailed.
C3_AnyServerIdUnauthenticatedFails ==
  \A t \in Threads :
    (Responded(t) /\ Has(params[t], "by_serverid") /\ ~Authenticated(t)) =>
      Failed(t, AuthenticationFailed)

\* C3 amended: whenever the by_serverid parameter is a non-empty string and
\* the caller is unauthenticated, the request fails with AuthenticationFailed.
C3_NonEmptyServerIdUnauthenticatedFails ==
  \A t \in Threads :
    (Responded(t) /\ Truthy(params[t], "by_serverid") /\ ~Authenticated(t)) =>
      Failed(t, AuthenticationFailed)

C3_Witness ==
  \E t \in Threads :
    /\ Responded(t) /\ ~Authenticated(t) /\ ~ByUser(t)
    /\ ServerIdMalformed(t)
    /\ LastStage(t) = "by_serverid"
    /\ Failed(t, AuthenticationFailed)

\* C4 as stated: every by_serverid value that does not parse as an integer
\* makes the request fail with ValidationError "Server value error",
\* whoever the caller is and whatever the other parameters are.
C4_MalformedServerIdAlwaysValueError ==
  \A t \in Threads :
    (Responded(t) /\ ServerIdMalformed(t)) =>
      Failed(t, ValidationError(<<"Server value error">>))

\* C4 amended: for an authenticated caller and by_user not "true", every
\* non-empty by_serverid value that does not parse as an integer makes the
\* request fail with ValidationError "Server value error".
C4_MalformedServerIdValueError ==
  \A t \in Threads :
    (Responded(t) /\ Authenticated(t) /\ ~ByUser(t) /\ ServerIdMalformed(t)) =>
      Failed(t, ValidationError(<<"Server value error">>))

C4_Witness ==
  \E t \in Threads :
    /\ Responded(t) /\ Authenticated(t) /\ ~ByUser(t) /\ ServerIdMalformed(t)
    /\ params[t]["by_serverid"] = S_abc
    /\ LastStage(t) = "by_serverid"
    /\ Failed(t, ValidationError(<<"Server value error">>))

\* C5: for an authenticated caller and by_user not "true", a by_serverid
\* that parses as an integer and is the id of no row when the request looks
\* makes the request fail with ValidationError "Server with id {value} not
\* found", never with "Server value error".
C5_UnknownServerIdNotFound ==
  \A t \in Threads :
    (Responded(t) /\ Authenticated(t) /\ ~ByUser(t) /\ ServerIdUnknown(t)) =>
      Failed(t, ValidationError(
        <<"Server with id ", params[t]["by_serverid"], " not found">>))

C5_Witness ==
  \E t \in Threads :
    /\ Responded(t) /\ Authenticated(t) /\ ~ByUser(t) /\ ServerIdUnknown(t)
    /\ db # <<>>
    /\ params[t]["by_serverid"] = S_9
    /\ Failed(t, ValidationError(<<"Server with id ", S_9, " not found">>))

\* C6: a request that reaches the quantity stage with qty = N, a
\* non-negative integer literal, returns the first min(N, size) rows of the
\* collection stages 1-4 produced, in its order: never more than N rows,
\* none when N = 0, all of them when N is at least the size.
C6_QtyTruncates ==
  \A t \in Threads :
    (/\ Responded(t)
     /\ \E i \in 1..Len(stages[t]) : stages[t][i] = "qty"
     /\ Truthy(params[t], "qty")
     /\ int(params[t]["qty"]) # <<>>
     /\ int(params[t]["qty"])[1] >= 0) =>
      LET N == int(params[t]["qty"])[1]
          all == working[t][1]
          data == response[t].data
      IN /\ response[t].returned
         /\ Len(data) = Min(N, Len(all))
         /\ \A i \in 1..Len(data) : data[i] = all[i]
         /\ Len(data) <= N
         /\ (N = 0 => data = <<>>)
         /\ (N >= Len(all) => data = all)

C6_Witness ==
  \E t \in Threads :
    /\ Responded(t)
    /\ Truthy(params[t], "qty") /\ int(params[t]["qty"]) = <<1>>
    /\ working[t] # <<>> /\ Len(working[t][1]) = 2
    /\ response[t].returned
    /\ response[t].data = <<working[t][1][1]>>

\* C7: when with_num_members is exactly "true" and the request succeeds,
\* every returned row carries a count equal to the number of distinct member
\* ids linked to it, duplicate relation rows included.
C7_CountsDistinctMembers ==
  \A t \in Threads :
    (Responded(t) /\ WithNumMembers(t) /\ response[t].returned) =>
      \A i \in 1..Len(response[t].data) :
        \A j \in 1..Len(db) :
          db[j].id = response[t].data[i].id =>
            response[t].data[i].num_members = Cardinality(Range(db[j].member))

\* C8 as stated: every category value that matches no row gives an empty
\* outcome and no error.
C8_UnmatchedCategoryAlwaysEmpty ==
  \A t \in Threads :
    (/\ Responded(t)
     /\ Has(params[t], "category")
     /\ \A i \in 1..Len(db) : db[i].category # params[t]["category"]) =>
      response[t].returned /\ response[t].data = <<>>

\* C8 amended: every non-empty category value that matches no row gives an
\* empty outcome and no error, provided by_user is not "true", by_serverid
\* is absent or empty, and qty is absent, empty or a non-negative integer.
C8_UnmatchedCategoryEmpty ==
  \A t \in Threads :
    (/\ Responded(t)
     /\ Truthy(params[t], "category")
     /\ \A i \in 1..Len(db) : db[i].category # params[t]["category"]
     /\ ~ByUser(t)
     /\ ~Truthy(params[t], "by_serverid")
     /\ QtyHarmless(t)) =>
      response[t].returned /\ response[t].data = <<>>

C8_Witness ==
  \E t \in Threads :
    /\ Responded(t)
    /\ params[t] = ("category" :> S_iot)
    /\ db # <<>>
    /\ response[t].returned /\ response[t].data = <<>>

\* C9: the outcome of an invocation depends only on its own parameters, its
\* own user and the table as it is when the invocation runs; nothing an
\* earlier or overlapping invocation left on the class-level queryset
\* changes it.  Stated for the invocations during which no writer changed
\* the table, so that the table it ran on is the table it ended on.
C9_IndependentOfOtherRequests ==
  \A t \in Threads :
    (Responded(t) /\ ~raced[t]) => response[t] = Outcome(params[t], user[t], db)

\* C10: a failure short-circuits the pipeline in the fixed stage order: the
\* failure reported is that of the earliest failing stage (by_user
\* authentication, by_serverid authentication, by_serverid value or
\* not-found, qty parsing), no stage after the failing one is entered, and
\* nothing is returned together with a failure.
StageOrder == <<"category", "by_user", "with_num_members", "by_serverid", "qty", "serialize">>

C10_FirstFailureWins ==
  \A t \in Threads :
    Responded(t) =>
      /\ stages[t] = SubSeq(StageOrder, 1, Len(stages[t]))
      /\ response[t].returned <=> response[t].exc = <<>>
      /\ response[t].returned <=> LastStage(t) = "serialize"
      /\ ~response[t].returned => response[t].data = <<>>
      /\ (ByUser(t) /\ ~Authenticated(t)) =>
           LastStage(t) = "by_user" /\ Failed(t, AuthenticationFailed)
      /\ (~ByUser(t) /\ Truthy(params[t], "by_serverid") /\ ~Authenticated(t)) =>
           LastStage(t) = "by_serverid" /\ Failed(t, AuthenticationFailed)
      /\ (~ByUser(t) /\ Authenticated(t) /\ ServerIdMalformed(t)) =>
           /\ LastStage(t) = "by_serverid"
           /\ Failed(t, ValidationError(<<"Server value error">>))
      /\ (~ByUser(t) /\ Authenticated(t) /\ ServerIdUnknown(t)) =>
           /\ LastStage(t) = "by_serverid"
           /\ Failed(t, ValidationError(
                <<"Server with id ", params[t]["by_serverid"], " not found">>))
      /\ (response[t].exc # <<>> /\ response[t].exc[1].exc = "ValueError") =>
           /\ LastStage(t) = "qty"
           /\ ~ByUser(t)
           /\ \/ ~Truthy(params[t], "by_serverid")
              \/ Authenticated(t) /\ ~ServerIdMalformed(t) /\ ~ServerIdUnknown(t)

C10_Witness ==
  \E t \in Threads :
    /\ Responded(t) /\ Authenticated(t) /\ ~ByUser(t)
    /\ ServerIdMalformed(t)
    /\ Truthy(params[t], "qty") /\ int(params[t]["qty"]) = <<>>
    /\ LastStage(t) = "by_serverid"
    /\ Failed(t, ValidationError(<<"Server value error">>))

====
